---- MODULE Spec2Model ----
(***************************************************************************)
(* Token market-data resolution of the trading bot                         *)
(* (src/blockchain/solana/token.py): get_solana_token_info and the four    *)
(* provider clients it drives; the facade get_token_info with the address  *)
(* classifier detect_chain (src/services/token_info.py); the message       *)
(* handler token_details (src/bot/handlers/token_details.py).              *)
(*                                                                         *)
(* Specifications.                                                         *)
(*   Spec       : get_solana_token_info called with any address            *)
(*   SpecFacade : token_details and other callers going through            *)
(*                get_token_info, which drives get_solana_token_info       *)
(*   SpecConc   : several get_solana_token_info coroutines in flight at    *)
(*                once on the event loop                                   *)
(*   SpecUsers  : the settings handlers (src/bot/handlers/settings.py)     *)
(*                serving two users                                        *)
(*   SpecSettings : the settings handlers serving one user, every button   *)
(*                of the menus                                             *)
(*   SpecRange  : the settings handlers serving one user who also types    *)
(*                numbers outside [0, 100]                                 *)
(*   SpecBot    : the same user talking to the running bot, whose          *)
(*                Application hands each update to the first handler       *)
(*                registered in main (src/bot/main.py) that matches it     *)
(*                                                                         *)
(* Units.  Floats are modelled exactly as integers in a fixed unit:        *)
(*   - sol_price_usd, liquidity, market_cap : whole USD                    *)
(*   - price_usd                            : micro-USD (1e-6 USD)         *)
(*   - outAmount                            : base units of the token      *)
(*   - priceImpactPct                       : hundredths (the fraction     *)
(*                                            times 100)                   *)
(*   - price_impact                         : a rational [n, d], percent   *)
(* A JSON value read with float() is a tagged record: a number, a numeric  *)
(* string, a non-numeric string, null, or an absent key.                   *)
(***************************************************************************)
EXTENDS Integers, Sequences, FiniteSets, TLC

VARIABLES
    JUPITER_API_KEY,  \* module constant read from the environment (line 15)
    pc,               \* position inside get_solana_token_info
    token_address,    \* argument of the running / last resolution
    sol_price_usd,    \* local of get_solana_token_info (line 48)
    token_info,       \* local of get_solana_token_info (lines 50, 56, 61)
    result,           \* value returned to the caller
    raised,           \* TRUE iff the resolution ended by raising to the caller
    invocations,      \* functions called by this resolution, with the reference price passed
    calls,            \* HTTP requests made by this resolution, in order
    http,             \* responses received by the provider call that just returned
    \* get_token_info (src/services/token_info.py)
    fpc,              \* position inside get_token_info
    facade_address,   \* argument of the running / last get_token_info
    facade_result,    \* value get_token_info returned
    \* token_details (src/bot/handlers/token_details.py)
    hpc,              \* position inside token_details
    user_input,       \* update.message.text.strip()
    chain,            \* local of token_details (line 15), "rejected" on ValueError
    reply,            \* which text the handler replied with
    user_data_has_token_info,  \* "token_info" in context.user_data
    \* coroutines of get_solana_token_info on the event loop
    tasks,            \* per coroutine: its position, its locals, the responses it got
    \* settings handlers (src/bot/handlers/settings.py)
    user_data,        \* context.user_data of every user: a dict, keys as its DOMAIN
    heap,             \* the dict objects nested in DEFAULT_TON_SETTINGS / DEFAULT_SOLANA_SETTINGS
    outcome,          \* who the last handler call served and how it ended
    shown,            \* per user, the buttons of the settings menus sent to the user so far
    update            \* the last update of SpecSettings / SpecBot and the handler that got it

\* State of get_solana_token_info
rvars == <<JUPITER_API_KEY, pc, token_address, sol_price_usd, token_info,
           result, raised, invocations, calls, http>>

\* State of get_token_info and token_details
hvars == <<fpc, facade_address, facade_result,
           hpc, user_input, chain, reply, user_data_has_token_info>>

\* Everything outside get_solana_token_info
\* State of the settings handlers
svars == <<user_data, heap, outcome, shown>>

nonresolver == <<hvars, tasks, svars, update>>

\* Everything outside get_token_info and token_details, bar the resolver
outside_facade == <<tasks, svars, update>>

\* Everything outside the coroutines of SpecConc, bar JUPITER_API_KEY
outside_tasks == <<pc, token_address, sol_price_usd, token_info, result, raised,
                   invocations, calls, http, hvars, svars, update>>

\* Everything outside the settings handlers
outside_settings == <<rvars, hvars, tasks>>

vars == <<rvars, nonresolver>>

-----------------------------------------------------------------------------
(* Bounds of the model *)

MaxSolPrice == 2     \* the oracle answers a price in 0..MaxSolPrice
MaxPrice == 1        \* provider prices are in 0..MaxPrice
MaxLiquidity == 2    \* provider liquidity is in -1..MaxLiquidity
MaxOutAmount == 1    \* swap quote outAmount is in 0..MaxOutAmount

-----------------------------------------------------------------------------
(* Python values *)

None == [none |-> TRUE]

\* Outcome of evaluating a function body: a returned value or a raised exception.
Ret(v) == [exc |-> FALSE, val |-> v]
Raise == [exc |-> TRUE, val |-> None]

\* JSON scalars
Num(n) == [k |-> "num", v |-> n]      \* a JSON number
Str(n) == [k |-> "str", v |-> n]      \* a JSON string that spells the number n
BadStr == [k |-> "bad", v |-> 0]      \* a JSON string that spells no number
Null == [k |-> "null", v |-> 0]       \* JSON null
Absent == [k |-> "absent", v |-> 0]   \* the key is not in the object

\* float(x): ValueError on a non-numeric string, TypeError on None.
PyFloat(x) == IF x.k \in {"num", "str"} THEN Ret(x.v) ELSE Raise

\* d[key]: KeyError when the key is absent.
Subscript(x) == IF x.k = "absent" THEN Raise ELSE Ret(x)

\* d.get(key, default)
DictGet(x, default) == IF x.k = "absent" THEN default ELSE x

\* Names and symbols are strings; these two stand for an absent key and null.
AbsentKey == "<absent>"
NullValue == "<None>"

\* Rationals with a positive denominator
Rat(n, d) == [n |-> n, d |-> d]
RatLeq(a, b) == a.n * b.d <= b.n * a.d
RatMin(a, b) == IF RatLeq(a, b) THEN a ELSE b
Hundred == Rat(100, 1)
Zero == Rat(0, 1)

-----------------------------------------------------------------------------
(* Program constants *)

SolFallback == 150
AssumedLiquidity == 100
MinSolanaLen == 40
MaxSolanaLen == 44
StatusOK == 200
TonLen == 48

\* A Python str
PyStr(s) == [str |-> s]

\* if x: for an Optional[str] (None and "" are falsy)
TruthyStr_NotNone(v) == v # None
TruthyStr(v) == TruthyStr_NotNone(v) /\ v # PyStr("")

\* if not x
TruthyDict_inverted(v) == v = None

\* if x: for an Optional[Dict] holding a non-empty dict
TruthyDict(v) == v # None

-----------------------------------------------------------------------------
(* HTTP responses.  net is what session.get does: "ok" (a response arrived), *)
(* "timeout" (ClientTimeout(total=5) expired) or "error" (transport error); *)
(* both of the latter raise inside the async with.  wf is whether           *)
(* resp.json() parses the body into a JSON object.                          *)

NoBody == [wf |-> FALSE]
Timeout == [net |-> "timeout", status |-> 0, body |-> NoBody]
TransportError == [net |-> "error", status |-> 0, body |-> NoBody]
HttpStatus(st) == [net |-> "ok", status |-> st, body |-> NoBody]
Malformed == [net |-> "ok", status |-> StatusOK, body |-> NoBody]
Ok(body) == [net |-> "ok", status |-> StatusOK, body |-> body]

ErrorStatuses == {404, 500}
Failures == {Timeout, TransportError, Malformed} \cup {HttpStatus(st) : st \in ErrorStatuses}

\* A response that is a fault of the HTTP call (as opposed to a parsed payload).
IsFault(r) == r.net # "ok" \/ r.status # StatusOK \/ ~r.body.wf

-----------------------------------------------------------------------------
(* get_sol_price (lines 17-33) *)

\* Body of the reference-price answer: has is whether data.get("data") is
\* truthy and holds SOL_MINT; price is data["data"][SOL_MINT]["price"]
\* (Absent when the entry has no "price").
SolPriceBodies ==
    {[wf |-> TRUE, has |-> FALSE, price |-> Absent]} \cup
    {[wf |-> TRUE, has |-> TRUE, price |-> p] :
        p \in {Absent, Null, BadStr} \cup {Str(n) : n \in 0..MaxSolPrice}}

SolPriceResponses == Failures \cup {Ok(b) : b \in SolPriceBodies}

\* Lines 21-30, without the except clause.
get_sol_price_try(resp) ==
    IF resp.net # "ok" THEN Raise
    ELSE IF resp.status # StatusOK THEN Ret(SolFallback)
    ELSE IF ~resp.body.wf THEN Raise
    ELSE IF ~resp.body.has THEN Ret(SolFallback)
    ELSE IF Subscript(resp.body.price).exc THEN Raise
    ELSE PyFloat(resp.body.price)

\* The oracle without its except clause and fallback: faults propagate.
get_sol_price_unguarded(resp) ==
    IF IsFault(resp) \/ ~resp.body.has THEN Raise ELSE get_sol_price_try(resp)

get_sol_price(resp) ==
    LET r == get_sol_price_try(resp)
    IN  IF r.exc THEN Ret(SolFallback) ELSE r

-----------------------------------------------------------------------------
(* Token addresses.  len is len(token_address), b58 is whether              *)
(* PublicKey(token_address) accepts the string, prefix its first two        *)
(* characters.                                                              *)

Addr(l, ok, pre) == [len |-> l, b58 |-> ok, prefix |-> pre]

Addresses ==
    { Addr(39, FALSE, "So"), Addr(40, TRUE, "So"), Addr(44, TRUE, "EQ"),
      Addr(44, FALSE, "So"), Addr(45, FALSE, "So"), Addr(48, FALSE, "EQ"),
      Addr(48, FALSE, "UQ"), Addr(48, FALSE, "So"), Addr(47, FALSE, "EQ") }

NoAddress == Addr(0, FALSE, "")

-----------------------------------------------------------------------------
(* Market snapshots: the dict the providers build *)

\* The dict without its "market_cap" key.
Snapshot_without_market_cap(name, symbol, address, price_usd, liquidity, market_cap, price_impact) ==
    [name |-> name, symbol |-> symbol, address |-> address, price_usd |-> price_usd,
     liquidity |-> liquidity, price_impact |-> price_impact]

Snapshot(name, symbol, address, price_usd, liquidity, market_cap, price_impact) ==
    [name |-> name, symbol |-> symbol, address |-> address, price_usd |-> price_usd,
     liquidity |-> liquidity, market_cap |-> market_cap, price_impact |-> price_impact]

SnapshotFields ==
    {"name", "symbol", "address", "price_usd", "liquidity", "market_cap", "price_impact"}

IsSnapshot(v) == v # None /\ DOMAIN v = SnapshotFields

\* The impact as trade_amount_usd / liquidity * 100.
ImpactFormula_over_liquidity(liquidity, sol) == Rat(sol * 100, 100 * liquidity)

\* trade_amount_usd / (liquidity + trade_amount_usd) * 100 with
\* trade_amount_usd = 0.01 * sol_price_usd, as an exact fraction
\* (numerator and denominator both multiplied by 100).
ImpactFormula(liquidity, sol) == Rat(sol * 100, 100 * liquidity + sol)

-----------------------------------------------------------------------------
(* fetch_from_dexscreener (lines 73-99) *)

ChainIds == {"solana", "ethereum"}
\* pair["baseToken"]["name"] and ["symbol"]: absent, or what the token is called
DexNames == {AbsentKey, "Bonk"}
DexSymbols == {AbsentKey, "BONK"}

\* pair["liquidity"]["usd"]: Absent also stands for a pair without "liquidity".
DexLiquidities == {Absent, Null, BadStr} \cup {Num(n) : n \in (0 - 1)..MaxLiquidity}
DexPrices == {Absent, Null, BadStr} \cup {Str(n) : n \in 0..MaxPrice}

DexPairs ==
    [chainId : ChainIds, liquidity : DexLiquidities, priceUsd : DexPrices,
     name : DexNames, symbol : DexSymbols,
     marketCap : {Absent, Null, Num(7)}, fdv : {Absent, Num(9)}]

\* data["pairs"] is absent, null or empty (<<>>), or a list whose first pair is given.
DexBodies == {[wf |-> TRUE, pairs |-> ps] : ps \in {<<>>} \cup {<<p>> : p \in DexPairs}}

DexResponses == Failures \cup {Ok(b) : b \in DexBodies}

\* Lines 81-94: the snapshot built from a pair, or the exception raised on the way.
DexSnapshot(pair, addr, sol) ==
    LET liquidity == DictGet(pair.liquidity, Num(0))
        price_usd == PyFloat(pair.priceUsd)
        market_cap == PyFloat(DictGet(pair.marketCap, DictGet(pair.fdv, Num(0))))
    IN  IF Subscript(pair.priceUsd).exc \/ price_usd.exc THEN Raise   \* line 82
        ELSE IF liquidity.k # "num" THEN Raise                        \* line 84: None > 0, "x" > 0
        ELSE IF pair.name = AbsentKey \/ pair.symbol = AbsentKey THEN Raise  \* lines 86-87
        ELSE IF market_cap.exc THEN Raise                             \* line 91
        ELSE LET price_impact == IF liquidity.v > 0
                                 THEN ImpactFormula(liquidity.v, sol)
                                 ELSE Hundred
             IN  Ret(Snapshot(pair.name, pair.symbol, addr, price_usd.val,
                              liquidity.v, market_cap.val, RatMin(price_impact, Hundred)))

\* Lines 76-96, without the except clause.
fetch_from_dexscreener_try(resp, addr, sol) ==
    IF resp.net # "ok" THEN Raise
    ELSE IF resp.status # StatusOK THEN Ret(None)
    ELSE IF ~resp.body.wf THEN Raise
    ELSE IF resp.body.pairs = <<>> THEN Ret(None)
    ELSE DexSnapshot(resp.body.pairs[1], addr, sol)

\* The client without its except clause: faults propagate to the resolver.
fetch_from_dexscreener_unguarded(resp, addr, sol) ==
    fetch_from_dexscreener_try(resp, addr, sol)

fetch_from_dexscreener(resp, addr, sol) ==
    LET r == fetch_from_dexscreener_try(resp, addr, sol)
    IN  IF r.exc THEN Ret(None) ELSE r

-----------------------------------------------------------------------------
(* Token metadata endpoint (JUPYTER_TOKEN_API), used by both fallback paths *)

MetaNames == {AbsentKey, NullValue, "Bonk"}
MetaSymbols == {AbsentKey, "BONK"}
MetaBodies == [wf : {TRUE}, name : MetaNames, symbol : MetaSymbols]
MetaResponses == Failures \cup {Ok(b) : b \in MetaBodies}

\* token_data.get(key, default) for a name or symbol
NameGet(x, default) == IF x = AbsentKey THEN default ELSE x

-----------------------------------------------------------------------------
(* fetch_from_jupiter_authenticated (lines 101-134) *)

\* priceImpactPct as the quote gives it, in hundredths
ImpactPcts == {0 - 1, 0, 1, 100, 150}

QuoteBodies ==
    [wf : {TRUE},
     outAmount : {Absent, Null, BadStr} \cup {Str(n) : n \in 0..MaxOutAmount},
     priceImpactPct : {Absent, Null} \cup {Str(n) : n \in ImpactPcts}]

QuoteResponses == Failures \cup {Ok(b) : b \in QuoteBodies}

\* Lines 105-109 reach the metadata request of line 112.
QuoteReachesMeta(q) ==
    /\ ~IsFault(q)
    /\ ~Subscript(q.body.outAmount).exc
    /\ ~PyFloat(q.body.outAmount).exc
    /\ ~PyFloat(DictGet(q.body.priceImpactPct, Num(0))).exc

\* Lines 112-119: name and symbol from the metadata request, or an exception.
AuthMeta(m) ==
    IF m.net # "ok" THEN Raise
    ELSE IF m.status # StatusOK THEN Ret(<<"Unknown", "UNK">>)
    ELSE IF ~m.body.wf THEN Raise
    ELSE Ret(<<NameGet(m.body.name, "Unknown"), NameGet(m.body.symbol, "UNK")>>)

\* Lines 105-131, without the except clause.  m is read only when the
\* metadata request is made.
fetch_from_jupiter_authenticated_try(q, m, addr, sol) ==
    IF q.net # "ok" THEN Raise
    ELSE IF q.status # StatusOK THEN Ret(None)
    ELSE IF ~QuoteReachesMeta(q) THEN Raise
    ELSE LET price_usd == PyFloat(q.body.outAmount).val * sol
             price_impact == Rat(PyFloat(DictGet(q.body.priceImpactPct, Num(0))).val, 1)
             meta == AuthMeta(m)
         IN  IF meta.exc THEN Raise
             ELSE Ret(Snapshot(meta.val[1], meta.val[2], addr, price_usd, 0, 0, price_impact))

fetch_from_jupiter_authenticated(q, m, addr, sol) ==
    LET r == fetch_from_jupiter_authenticated_try(q, m, addr, sol)
    IN  IF r.exc THEN Ret(None) ELSE r

\* The HTTP requests fetch_from_jupiter_authenticated makes.
AuthCalls(q) == IF QuoteReachesMeta(q) THEN <<"swap_quote", "token">> ELSE <<"swap_quote">>

-----------------------------------------------------------------------------
(* fetch_from_jupiter_free (lines 136-180) *)

\* Body of the price answer: has is whether data.get("data") is truthy and
\* holds token_address; price is data["data"][token_address]["price"].
PriceBodies ==
    {[wf |-> TRUE, has |-> FALSE, price |-> Absent]} \cup
    {[wf |-> TRUE, has |-> TRUE, price |-> p] :
        p \in {Absent, Null, BadStr} \cup {Str(n) : n \in 0..MaxPrice}}

PriceResponses == Failures \cup {Ok(b) : b \in PriceBodies}

\* Lines 140-154: price_usd after the first try block.
FreePrice(p) ==
    IF IsFault(p) \/ ~p.body.has THEN 0
    ELSE IF Subscript(p.body.price).exc \/ PyFloat(p.body.price).exc THEN 0
    ELSE PyFloat(p.body.price).val

\* Lines 141 and 156-165: name and symbol after the second try block.
FreeMeta(m) ==
    IF IsFault(m) THEN <<"Unknown", "UNK">>
    ELSE <<NameGet(m.body.name, "Unknown"), NameGet(m.body.symbol, "UNK")>>

\* Lines 167-180.
FreeCompose(price_usd, name, symbol, addr, sol) ==
    IF price_usd > 0 \/ name # "Unknown"
    THEN Ret(Snapshot(name, symbol, addr, price_usd, 0, 0,
                      RatMin(ImpactFormula(AssumedLiquidity, sol), Hundred)))
    ELSE Ret(None)

\* The price request raises inside its try block (as opposed to answering
\* a status other than 200 or a body without the entry).
FreePriceRaises(p) ==
    \/ p.net # "ok"
    \/ /\ p.status = StatusOK
       /\ \/ ~p.body.wf
          \/ p.body.has /\ (Subscript(p.body.price).exc \/ PyFloat(p.body.price).exc)

\* The free-tier client with both requests in one try block: an exception
\* of the price request skips the metadata request.
fetch_from_jupiter_free_single_try(p, m, addr, sol) ==
    IF FreePriceRaises(p)
    THEN FreeCompose(0, "Unknown", "UNK", addr, sol)
    ELSE FreeCompose(FreePrice(p), FreeMeta(m)[1], FreeMeta(m)[2], addr, sol)

fetch_from_jupiter_free(p, m, addr, sol) ==
    FreeCompose(FreePrice(p), FreeMeta(m)[1], FreeMeta(m)[2], addr, sol)

\* The HTTP requests fetch_from_jupiter_free makes (lines 144, 157).
FreeCalls == <<"price", "token">>

-----------------------------------------------------------------------------
(* get_solana_token_info (lines 35-71).  pc names the line about to run:    *)
(* "idle" before the first call, "returned" after a return.                *)

Keys == {None, PyStr(""), PyStr("jup-key")}

ResolverInit ==
    /\ JUPITER_API_KEY \in Keys
    /\ pc = "idle"
    /\ token_address = NoAddress
    /\ sol_price_usd = 0
    /\ token_info = None
    /\ result = None
    /\ raised = FALSE
    /\ invocations = <<>>
    /\ calls = <<>>
    /\ http = <<>>

\* No call of get_token_info and no message yet; context.user_data is empty.
HandlerInit ==
    /\ fpc = "idle"
    /\ facade_address = NoAddress
    /\ facade_result = None
    /\ hpc = "idle"
    /\ user_input = NoAddress
    /\ chain = "none"
    /\ reply = "none"
    /\ user_data_has_token_info = FALSE

\* The coroutines of SpecConc.
Resolutions == {"r1", "r2"}

\* A coroutine that has not been started.
IdleTask ==
    [pc |-> "idle", token_address |-> NoAddress, sol_price_usd |-> 0,
     result |-> None, received |-> <<>>]

TasksInit == tasks = [i \in Resolutions |-> IdleTask]

\* The users the settings handlers serve.
Users == {"u1", "u2"}

\* Setting values are held in tenths, so that 0.1 and 0.5 are integers.
Tenths(n) == 10 * n

\* Lines 8-28: the four inner dicts created when the module is imported,
\* each with the list it holds.
HeapInit ==
    [ton_buy |-> [presets |-> <<Tenths(1), Tenths(4), Tenths(5), Tenths(10)>>,
                  slippage |-> Tenths(1)],
     ton_sell |-> [percentages |-> <<Tenths(25), Tenths(50), Tenths(70), Tenths(100)>>,
                   slippage |-> Tenths(1)],
     solana_buy |-> [presets |-> <<1, 5, Tenths(1), 15>>, slippage |-> Tenths(1)],
     solana_sell |-> [percentages |-> <<Tenths(25), Tenths(50), Tenths(70), Tenths(100)>>,
                      slippage |-> Tenths(1)]]

\* Lines 8 and 19: the outer dicts, holding references to the inner ones.
DEFAULT_TON_SETTINGS == [buy_settings |-> "ton_buy", sell_settings |-> "ton_sell"]
DEFAULT_SOLANA_SETTINGS == [buy_settings |-> "solana_buy", sell_settings |-> "solana_sell"]

\* An empty dict.
EmptyDict == [k \in {} |-> TRUE]

SettingsInit ==
    /\ user_data = [u \in Users |-> EmptyDict]
    /\ heap = HeapInit
    /\ outcome = [user |-> "", out |-> ""]
    /\ shown = [u \in Users |-> {}]

\* An update: a /settings command, a pressed button (data) or a text
\* message (text), and the handler it was delivered to.
Update(kind, data, text, handler) ==
    [kind |-> kind, data |-> data, text |-> text, handler |-> handler]

UpdateInit == update = Update("", [kind |-> "", chain |-> "", index |-> 0], BadStr, "")

Init == ResolverInit /\ HandlerInit /\ TasksInit /\ SettingsInit /\ UpdateInit

Invoked(fn) == [fn |-> fn]
InvokedWith(fn, sol) == [fn |-> fn, sol_price_usd |-> sol]

\* Lines 69-71: except Exception: return None.
resolver_except(r) == IF r.exc THEN Ret(None) ELSE r

\* The resolution ends: with the value of r, or through lines 69-71 when r
\* is an exception.
Finish(r) ==
    /\ pc' = "returned"
    /\ result' = resolver_except(r).val
    /\ raised' = resolver_except(r).exc

\* The address checks without the PublicKey check of lines 40-44.
AddressAccepted_length_only(addr) ==
    MinSolanaLen <= addr.len /\ addr.len <= MaxSolanaLen

\* Lines 37-44: the address checks.
AddressAccepted(addr) ==
    /\ MinSolanaLen <= addr.len /\ addr.len <= MaxSolanaLen
    /\ addr.b58

\* Lines 35-46: get_solana_token_info(addr) starts.
EnterWith(addr) ==
    /\ token_address' = addr
    /\ IF AddressAccepted(addr)
       THEN pc' = "L48" /\ result' = None /\ raised' = FALSE
       ELSE Finish(Ret(None))
    /\ sol_price_usd' = 0
    /\ token_info' = None
    /\ invocations' = <<>>
    /\ calls' = <<>>
    /\ http' = <<>>
    /\ UNCHANGED JUPITER_API_KEY

\* A caller awaits get_solana_token_info(addr) for some address.
Enter ==
    /\ pc \in {"idle", "returned"}
    /\ \E addr \in Addresses : EnterWith(addr)
    /\ UNCHANGED nonresolver

\* Line 48: sol_price_usd = await get_sol_price(session).
CallSolPrice ==
    /\ pc = "L48"
    /\ \E resp \in SolPriceResponses :
        LET r == get_sol_price(resp)
        IN  /\ http' = <<resp>>
            /\ IF r.exc
               THEN Finish(r) /\ UNCHANGED sol_price_usd
               ELSE /\ sol_price_usd' = r.val
                    /\ pc' = "L50"
                    /\ UNCHANGED <<result, raised>>
    /\ invocations' = Append(invocations, Invoked("get_sol_price"))
    /\ calls' = Append(calls, "sol_price")
    /\ UNCHANGED <<JUPITER_API_KEY, token_address, token_info>>
    /\ UNCHANGED nonresolver

\* Line 50: token_info = await fetch_from_dexscreener(...).
CallDexscreener ==
    /\ pc = "L50"
    /\ \E resp \in DexResponses :
        LET r == fetch_from_dexscreener(resp, token_address, sol_price_usd)
        IN  /\ http' = <<resp>>
            /\ IF r.exc
               THEN Finish(r) /\ UNCHANGED token_info
               ELSE /\ token_info' = r.val
                    /\ pc' = "L51"
                    /\ UNCHANGED <<result, raised>>
    /\ invocations' = Append(invocations, InvokedWith("fetch_from_dexscreener", sol_price_usd))
    /\ calls' = Append(calls, "dexscreener")
    /\ UNCHANGED <<JUPITER_API_KEY, token_address, sol_price_usd>>
    /\ UNCHANGED nonresolver

\* Line 55 with the branches swapped.
SelectFallback_swapped(key) == IF TruthyStr(key) THEN "L61" ELSE "L56"

\* Line 55: if JUPITER_API_KEY.
SelectFallback(key) == IF TruthyStr(key) THEN "L56" ELSE "L61"

\* Lines 51-55: return the primary result, or select the fallback path.
CheckDexscreener ==
    /\ pc = "L51"
    /\ IF TruthyDict(token_info)
       THEN Finish(Ret(token_info))
       ELSE /\ pc' = SelectFallback(JUPITER_API_KEY)
            /\ UNCHANGED <<result, raised>>
    /\ http' = <<>>
    /\ UNCHANGED <<JUPITER_API_KEY, token_address, sol_price_usd, token_info,
                   invocations, calls>>
    /\ UNCHANGED nonresolver

\* Stands for the metadata response when that request is not made.
NoResponse == [net |-> "none", status |-> 0, body |-> NoBody]

\* Line 56: token_info = await fetch_from_jupiter_authenticated(...).
CallAuthenticated ==
    /\ pc = "L56"
    /\ \E q \in QuoteResponses :
       \E m \in (IF QuoteReachesMeta(q) THEN MetaResponses ELSE {NoResponse}) :
        LET r == fetch_from_jupiter_authenticated(q, m, token_address, sol_price_usd)
        IN  /\ http' = (IF QuoteReachesMeta(q) THEN <<q, m>> ELSE <<q>>)
            /\ calls' = calls \o AuthCalls(q)
            /\ IF r.exc
               THEN Finish(r) /\ UNCHANGED token_info
               ELSE /\ token_info' = r.val
                    /\ pc' = "L57"
                    /\ UNCHANGED <<result, raised>>
    /\ invocations' =
          Append(invocations, InvokedWith("fetch_from_jupiter_authenticated", sol_price_usd))
    /\ UNCHANGED <<JUPITER_API_KEY, token_address, sol_price_usd>>
    /\ UNCHANGED nonresolver

\* Lines 57-59 and 66-67.
CheckAuthenticated ==
    /\ pc = "L57"
    /\ Finish(Ret(IF TruthyDict(token_info) THEN token_info ELSE None))
    /\ http' = <<>>
    /\ UNCHANGED <<JUPITER_API_KEY, token_address, sol_price_usd, token_info,
                   invocations, calls>>
    /\ UNCHANGED nonresolver

\* Line 61: token_info = await fetch_from_jupiter_free(...).
CallFree ==
    /\ pc = "L61"
    /\ \E p \in PriceResponses : \E m \in MetaResponses :
        LET r == fetch_from_jupiter_free(p, m, token_address, sol_price_usd)
        IN  /\ http' = <<p, m>>
            /\ IF r.exc
               THEN Finish(r) /\ UNCHANGED token_info
               ELSE /\ token_info' = r.val
                    /\ pc' = "L62"
                    /\ UNCHANGED <<result, raised>>
    /\ calls' = calls \o FreeCalls
    /\ invocations' = Append(invocations, InvokedWith("fetch_from_jupiter_free", sol_price_usd))
    /\ UNCHANGED <<JUPITER_API_KEY, token_address, sol_price_usd>>
    /\ UNCHANGED nonresolver

\* Lines 62-67 with one more attempt of the free tier after a failure.
CheckFree_retry ==
    /\ pc = "L62"
    /\ IF token_info = None /\ Len(calls) < 6
       THEN pc' = "L61" /\ UNCHANGED <<result, raised>>
       ELSE Finish(Ret(token_info))
    /\ http' = <<>>
    /\ UNCHANGED <<JUPITER_API_KEY, token_address, sol_price_usd, token_info,
                   invocations, calls>>
    /\ UNCHANGED nonresolver

\* Lines 62-64 and 66-67.
CheckFree ==
    /\ pc = "L62"
    /\ Finish(Ret(IF TruthyDict(token_info) THEN token_info ELSE None))
    /\ http' = <<>>
    /\ UNCHANGED <<JUPITER_API_KEY, token_address, sol_price_usd, token_info,
                   invocations, calls>>
    /\ UNCHANGED nonresolver

Next ==
    \/ Enter
    \/ CallSolPrice
    \/ CallDexscreener
    \/ CheckDexscreener
    \/ CallAuthenticated
    \/ CheckAuthenticated
    \/ CallFree
    \/ CheckFree

Spec == Init /\ [][Next]_vars

-----------------------------------------------------------------------------
(* get_token_info and detect_chain, src/services/token_info.py *)

\* Line 14.
ValueError == Raise

TonPrefixes == {"EQ", "UQ"}

\* detect_chain without the prefix test of line 11.
detect_chain_any_prefix(addr) ==
    IF MinSolanaLen <= addr.len /\ addr.len <= MaxSolanaLen
    THEN Ret("solana")
    ELSE IF addr.len = TonLen THEN Ret("ton") ELSE ValueError

\* Lines 8-14.
detect_chain(addr) ==
    IF MinSolanaLen <= addr.len /\ addr.len <= MaxSolanaLen
    THEN Ret("solana")
    ELSE IF addr.len = TonLen /\ addr.prefix \in TonPrefixes
         THEN Ret("ton")
         ELSE ValueError

\* The value of the local `chain` after a call of detect_chain.
ChainOf(r) == IF r.exc THEN "rejected" ELSE r.val

\* get_solana_token_info is not running and has nothing to show.
ResolverIdle ==
    /\ pc' = "idle"
    /\ token_address' = NoAddress
    /\ sol_price_usd' = 0
    /\ token_info' = None
    /\ result' = None
    /\ raised' = FALSE
    /\ invocations' = <<>>
    /\ calls' = <<>>
    /\ http' = <<>>
    /\ UNCHANGED JUPITER_API_KEY

\* Lines 16-25 up to the await: a caller awaits get_token_info(addr).
\* The ValueError of detect_chain is caught at line 23 and None returned.
get_token_info(addr) ==
    /\ fpc \in {"idle", "returned"}
    /\ pc \in {"idle", "returned"}
    /\ facade_address' = addr
    /\ facade_result' = None
    /\ LET r == detect_chain(addr) IN
       IF r.exc
       THEN fpc' = "returned" /\ ResolverIdle
       ELSE IF r.val = "solana"
            THEN fpc' = "L20" /\ EnterWith(addr)
            ELSE fpc' = "L22" /\ ResolverIdle

\* Line 20: get_solana_token_info returned to get_token_info.
ReturnSolana ==
    /\ fpc = "L20"
    /\ pc = "returned"
    /\ fpc' = "returned"
    /\ facade_result' = result
    /\ UNCHANGED <<rvars, facade_address, hpc, user_input, chain, reply,
                   user_data_has_token_info>>
    /\ UNCHANGED outside_facade

\* What get_ton_token_info may return for a TON address.
TonSnapshot(addr) == Snapshot("Toncoin", "TON", addr, Rat(1, 1), 0, 0, Hundred)

\* Line 22: get_ton_token_info queried its providers and returned.
ReturnTon ==
    /\ fpc = "L22"
    /\ fpc' = "returned"
    /\ \E r \in {None, TonSnapshot(facade_address)} : facade_result' = r
    /\ calls' = Append(calls, "ton")
    /\ UNCHANGED <<JUPITER_API_KEY, pc, token_address, sol_price_usd, token_info,
                   result, raised, invocations, http>>
    /\ UNCHANGED <<facade_address, hpc, user_input, chain, reply,
                   user_data_has_token_info>>
    /\ UNCHANGED outside_facade

\* Another handler of the bot calls get_token_info while no message is handled.
DirectCall ==
    /\ hpc = "idle"
    /\ \E addr \in Addresses : get_token_info(addr)
    /\ UNCHANGED <<hpc, user_input, chain, reply, user_data_has_token_info>>
    /\ UNCHANGED outside_facade

-----------------------------------------------------------------------------
(* token_details, src/bot/handlers/token_details.py *)

\* Lines 11-15 and 36-37: a message arrives; detect_chain may raise.
TokenDetailsReceive ==
    /\ hpc = "idle"
    /\ fpc \in {"idle", "returned"}
    /\ \E addr \in Addresses :
        /\ user_input' = addr
        /\ chain' = ChainOf(detect_chain(addr))
        /\ IF detect_chain(addr).exc
           THEN hpc' = "replied" /\ reply' = "invalid_address"
           ELSE hpc' = "L16" /\ reply' = "none"
    /\ UNCHANGED <<rvars, fpc, facade_address, facade_result,
                   user_data_has_token_info>>
    /\ UNCHANGED outside_facade

\* Line 16: the handler awaits get_token_info(user_input).
TokenDetailsCall ==
    /\ hpc = "L16"
    /\ get_token_info(user_input)
    /\ hpc' = "awaiting"
    /\ UNCHANGED <<user_input, chain, reply, user_data_has_token_info>>
    /\ UNCHANGED outside_facade

\* Lines 17-34 and 38-40: get_token_info returned to the handler.
TokenDetailsReply ==
    /\ hpc = "awaiting"
    /\ fpc = "returned"
    /\ hpc' = "replied"
    /\ IF ~TruthyDict(facade_result)
       THEN reply' = "could_not_fetch" /\ UNCHANGED user_data_has_token_info
       ELSE \E wallet_ok \in BOOLEAN :
              IF wallet_ok
              THEN reply' = "details" /\ user_data_has_token_info' = TRUE
              ELSE reply' = "error" /\ UNCHANGED user_data_has_token_info
    /\ UNCHANGED <<rvars, fpc, facade_address, facade_result, user_input, chain>>
    /\ UNCHANGED outside_facade

\* The handler returned: its locals and the frames of its callees are gone,
\* context.user_data stays.
TokenDetailsDone ==
    /\ hpc = "replied"
    /\ hpc' = "idle"
    /\ user_input' = NoAddress
    /\ chain' = "none"
    /\ reply' = "none"
    /\ fpc' = "idle"
    /\ facade_address' = NoAddress
    /\ facade_result' = None
    /\ ResolverIdle
    /\ UNCHANGED user_data_has_token_info
    /\ UNCHANGED outside_facade

\* Messages, calls of get_token_info, and the steps of the resolution they start.
NextFacade ==
    \/ DirectCall
    \/ ReturnSolana
    \/ ReturnTon
    \/ TokenDetailsReceive
    \/ TokenDetailsCall
    \/ TokenDetailsReply
    \/ TokenDetailsDone
    \/ CallSolPrice
    \/ CallDexscreener
    \/ CheckDexscreener
    \/ CallAuthenticated
    \/ CheckAuthenticated
    \/ CallFree
    \/ CheckFree

SpecFacade == Init /\ [][NextFacade]_vars

-----------------------------------------------------------------------------
(* Several get_solana_token_info coroutines in flight (src/blockchain/     *)
(* solana/token.py lines 15-71).  Each coroutine has its own frame         *)
(* (token_address, sol_price_usd, the session of line 46); the event loop  *)
(* switches between coroutines at the awaits of lines 48, 50, 56 and 61.   *)
(* The only module-level value they read is JUPITER_API_KEY (line 15).     *)

TaskAddresses == {Addr(44, TRUE, "EQ"), Addr(44, FALSE, "So")}

\* What the providers answer a coroutine.
TaskSolResponses == {Timeout, Ok([wf |-> TRUE, has |-> TRUE, price |-> Str(1)])}
TaskPair ==
    [chainId |-> "solana", liquidity |-> Num(1), priceUsd |-> Str(1),
     name |-> "Bonk", symbol |-> "BONK", marketCap |-> Num(7), fdv |-> Absent]
TaskDexResponses == {Timeout, Ok([wf |-> TRUE, pairs |-> <<TaskPair>>])}
TaskQuoteResponses ==
    {HttpStatus(500), Ok([wf |-> TRUE, outAmount |-> Str(1), priceImpactPct |-> Str(1)])}
TaskPriceResponses == {Timeout, Ok([wf |-> TRUE, has |-> TRUE, price |-> Str(1)])}
TaskMetaResponses == {Timeout, Ok([wf |-> TRUE, name |-> "Bonk", symbol |-> "BONK"])}

\* sol_price_usd kept in a module-level variable that every coroutine reads.
SetSolPrice_module_level(t, i, v) ==
    [j \in DOMAIN t |-> [t[j] EXCEPT !.sol_price_usd = v]]

\* Line 48: sol_price_usd is a local of the coroutine.
SetSolPrice(t, i, v) == [t EXCEPT ![i].sol_price_usd = v]

\* Lines 35-46: coroutine i is started with an address.
TaskStart ==
    /\ \E i \in Resolutions, addr \in TaskAddresses :
        /\ tasks[i].pc \in {"idle", "returned"}
        /\ tasks' = [tasks EXCEPT ![i] =
              [pc |-> IF AddressAccepted(addr) THEN "L48" ELSE "returned",
               token_address |-> addr, sol_price_usd |-> 0, result |-> None,
               received |-> <<>>]]
    /\ UNCHANGED <<JUPITER_API_KEY, outside_tasks>>

\* Line 48: the await of get_sol_price completes in coroutine i.
TaskSolPrice ==
    /\ \E i \in Resolutions, r \in TaskSolResponses :
        /\ tasks[i].pc = "L48"
        /\ tasks' = SetSolPrice([tasks EXCEPT ![i].pc = "L50", ![i].received = <<r>>],
                                i, get_sol_price(r).val)
    /\ UNCHANGED <<JUPITER_API_KEY, outside_tasks>>

\* Lines 50-53: the await of fetch_from_dexscreener completes in coroutine i.
TaskDexscreener ==
    /\ \E i \in Resolutions, r \in TaskDexResponses :
        /\ tasks[i].pc = "L50"
        /\ LET t == tasks[i]
               ti == fetch_from_dexscreener(r, t.token_address, t.sol_price_usd).val
           IN  tasks' = [tasks EXCEPT
                  ![i].received = Append(@, r),
                  ![i].pc = IF TruthyDict(ti) THEN "returned" ELSE "L55",
                  ![i].result = IF TruthyDict(ti) THEN ti ELSE None]
    /\ UNCHANGED <<JUPITER_API_KEY, outside_tasks>>

\* Lines 55-67: the fallback client selected by JUPITER_API_KEY completes in
\* coroutine i.
TaskFallback ==
    /\ \E i \in Resolutions, q \in TaskQuoteResponses, p \in TaskPriceResponses,
          m \in TaskMetaResponses :
        /\ tasks[i].pc = "L55"
        /\ LET t == tasks[i]
               auth == SelectFallback(JUPITER_API_KEY) = "L56"
               ti == IF auth
                     THEN fetch_from_jupiter_authenticated(q, m, t.token_address,
                                                           t.sol_price_usd).val
                     ELSE fetch_from_jupiter_free(p, m, t.token_address,
                                                  t.sol_price_usd).val
           IN  tasks' = [tasks EXCEPT
                  ![i].received = @ \o <<(IF auth THEN q ELSE p), m>>,
                  ![i].pc = "returned",
                  ![i].result = IF TruthyDict(ti) THEN ti ELSE None]
    /\ UNCHANGED <<JUPITER_API_KEY, outside_tasks>>

NextConc ==
    \/ TaskStart
    \/ TaskSolPrice
    \/ TaskDexscreener
    \/ TaskFallback

SpecConc == Init /\ [][NextConc]_vars

-----------------------------------------------------------------------------
(* The settings handlers, src/bot/handlers/settings.py.  A handler is an   *)
(* operator from the user's context.user_data d, the heap hp and its input *)
(* to the record [ud, hp, out]: the user's dict and the heap afterwards,   *)
(* and how the call ended (the menu shown, the text replied, or the        *)
(* exception that left the handler).                                       *)

Has(d, k) == k \in DOMAIN d
Put(d, k, v) == [x \in DOMAIN d \cup {k} |-> IF x = k THEN v ELSE d[x]]
\* del d[k] that drops the current chain with the key.
Del_with_chain(d, k) == [x \in DOMAIN d \ {k, "current_chain"} |-> d[x]]

\* del d[k]
Del(d, k) == [x \in DOMAIN d \ {k} |-> d[x]]

\* dict.copy(): a new dict with the same items, so the same references.
ShallowCopy(d) == d

\* Lines 35-39, 67-71, 133-137.
InitSettings(d) ==
    IF Has(d, "settings") THEN d
    ELSE Put(d, "settings", [ton |-> ShallowCopy(DEFAULT_TON_SETTINGS),
                             solana |-> ShallowCopy(DEFAULT_SOLANA_SETTINGS)])

\* context.user_data.get("current_chain")
CurrentChain(d) == IF Has(d, "current_chain") THEN d["current_chain"] ELSE NullValue

Ended(d, hp, out) == [ud |-> d, hp |-> hp, out |-> out]

\* Lines 30-58.
settings_handler(d, hp) == Ended(InitSettings(d), hp, "choose_chain")

\* Callback data of the buttons the menus build (lines 41-45, 198-204, 210-231, 243-264).
Button(kind, ch, i) == [kind |-> kind, chain |-> ch, index |-> i]

\* Lines 90-95, 97-101, 103-108, 110-114: an edit button sets its flag, then
\* formats the prompt with chain.upper().
EditPressed(d, hp, ch, flag, v) ==
    Ended(Put(d, flag, v), hp, IF ch = NullValue THEN "AttributeError" ELSE "ask_value")

\* Lines 60-127.
settings_callback(d, hp, data) ==
    LET d0 == InitSettings(d)
        ch == CurrentChain(d0)
    IN  CASE data.kind = "chain_settings" ->
               Ended(Put(d0, "current_chain", data.chain), hp, "chain_menu")
          [] data.kind \in {"set_buy_settings", "set_sell_settings"} ->
               Ended(d0, hp, IF ch = NullValue THEN "KeyError" ELSE data.kind)
          [] data.kind = "edit_buy_preset" ->
               EditPressed(d0, hp, ch, "editing_buy_preset_index", data.index)
          [] data.kind = "edit_buy_slippage" ->
               EditPressed(d0, hp, ch, "editing_buy_slippage", TRUE)
          [] data.kind = "edit_sell_percent" ->
               EditPressed(d0, hp, ch, "editing_sell_percent_index", data.index)
          [] data.kind = "edit_sell_slippage" ->
               EditPressed(d0, hp, ch, "editing_sell_slippage", TRUE)
          [] data.kind = "settings_done" ->
               IF ch = NullValue THEN Ended(d0, hp, "AttributeError")
               ELSE Ended(Del(d0, "current_chain"), hp, "saved")
          [] data.kind = "settings_back" -> settings_handler(d0, hp)
          [] OTHER -> Ended(d0, hp, "unknown_option")

\* A branch of handle_text_input that gives up the edit when the text is not
\* a number.
TextEdit_gives_up(d, hp, ch, text, flag, side, field, i, ranged) ==
    LET f == PyFloat(text) IN
    IF f.exc THEN Ended(Del(d, flag), hp, "invalid_number")
    ELSE IF ranged /\ ~(0 <= f.val /\ f.val <= Tenths(100)) THEN Ended(d, hp, "out_of_range")
    ELSE IF ch = NullValue THEN Ended(d, hp, "KeyError")
    ELSE LET ref == d["settings"][ch][side] IN
         Ended(Del(d, flag),
               IF i = 0 THEN [hp EXCEPT ![ref][field] = f.val]
                        ELSE [hp EXCEPT ![ref][field][i] = f.val],
               side)

\* A branch of handle_text_input without the range test of line 170.
TextEdit_unranged(d, hp, ch, text, flag, side, field, i, ranged) ==
    LET f == PyFloat(text) IN
    IF f.exc THEN Ended(d, hp, "invalid_number")
    ELSE IF ch = NullValue THEN Ended(d, hp, "KeyError")
    ELSE LET ref == d["settings"][ch][side] IN
         Ended(Del(d, flag),
               IF i = 0 THEN [hp EXCEPT ![ref][field] = f.val]
                        ELSE [hp EXCEPT ![ref][field][i] = f.val],
               side)

\* Lines 140-152, 154-165, 167-182, 184-195: one branch of handle_text_input.
\* side and field name the value settings[chain][side][field], i is the list
\* index plus one or 0 for a slippage, ranged says whether line 170 applies.
TextEdit(d, hp, ch, text, flag, side, field, i, ranged) ==
    LET f == PyFloat(text) IN
    IF f.exc THEN Ended(d, hp, "invalid_number")
    ELSE IF ranged /\ ~(0 <= f.val /\ f.val <= Tenths(100)) THEN Ended(d, hp, "out_of_range")
    ELSE IF ch = NullValue THEN Ended(d, hp, "KeyError")
    ELSE LET ref == d["settings"][ch][side] IN
         Ended(Del(d, flag),
               IF i = 0 THEN [hp EXCEPT ![ref][field] = f.val]
                        ELSE [hp EXCEPT ![ref][field][i] = f.val],
               side)

\* Lines 129-195.
handle_text_input(d, hp, text) ==
    LET ch == CurrentChain(d)
        d0 == InitSettings(d)
    IN  IF Has(d0, "editing_buy_preset_index")
        THEN TextEdit(d0, hp, ch, text, "editing_buy_preset_index", "buy_settings",
                      "presets", d0["editing_buy_preset_index"] + 1, FALSE)
        ELSE IF Has(d0, "editing_buy_slippage")
        THEN TextEdit(d0, hp, ch, text, "editing_buy_slippage", "buy_settings",
                      "slippage", 0, FALSE)
        ELSE IF Has(d0, "editing_sell_percent_index")
        THEN TextEdit(d0, hp, ch, text, "editing_sell_percent_index", "sell_settings",
                      "percentages", d0["editing_sell_percent_index"] + 1, TRUE)
        ELSE IF Has(d0, "editing_sell_slippage")
        THEN TextEdit(d0, hp, ch, text, "editing_sell_slippage", "sell_settings",
                      "slippage", 0, FALSE)
        ELSE Ended(d0, hp, "ignored")

\* The kinds of the buttons on the keyboard a handler call that ended as out
\* sent: lines 41-45 (choose chain), 198-204 (chain menu), 210-231 (buy
\* settings), 243-264 (sell settings).
Keyboard(out) ==
    CASE out = "choose_chain" -> {"chain_settings", "main_menu"}
      [] out = "chain_menu" ->
           {"set_buy_settings", "set_sell_settings", "settings_done", "main_menu"}
      [] out \in {"set_buy_settings", "buy_settings"} ->
           {"edit_buy_preset", "edit_buy_slippage", "settings_back", "main_menu"}
      [] out \in {"set_sell_settings", "sell_settings"} ->
           {"edit_sell_percent", "edit_sell_slippage", "settings_back", "main_menu"}
      [] OTHER -> {}

\* The handler call that ended as r served user u.
Serve(u, r) ==
    /\ user_data' = [user_data EXCEPT ![u] = r.ud]
    /\ heap' = r.hp
    /\ outcome' = [user |-> u, out |-> r.out]
    /\ shown' = [shown EXCEPT ![u] = @ \cup Keyboard(r.out)]
    /\ UNCHANGED <<outside_settings, update>>

\* What the two users press and type.
UsersButtons ==
    {Button("chain_settings", "ton", 0), Button("chain_settings", "solana", 0),
     Button("set_buy_settings", "", 0),
     Button("edit_buy_preset", "", 0), Button("edit_buy_slippage", "", 0),
     Button("settings_done", "", 0)}
UsersTexts == {Str(Tenths(7)), BadStr}

\* /settings
UsersCommand == \E u \in Users : Serve(u, settings_handler(user_data[u], heap))

\* A button of a settings menu the user was sent is pressed.
UsersCallback ==
    \E u \in Users, data \in UsersButtons :
        /\ data.kind \in shown[u]
        /\ Serve(u, settings_callback(user_data[u], heap, data))

\* A text message reaches handle_text_input.
UsersText ==
    \E u \in Users, text \in UsersTexts :
        Serve(u, handle_text_input(user_data[u], heap, text))

NextUsers ==
    \/ UsersCommand
    \/ UsersCallback
    \/ UsersText

SpecUsers == Init /\ [][NextUsers]_vars

-----------------------------------------------------------------------------
(* One user and the settings handlers, every button of the menus.          *)

TheUser == "u1"

\* An update without data, and one without text.
NoData == Button("", "", 0)
NoText == BadStr

\* The handler call for update upd, delivered to handler h, ended as r.
Handle(upd, r) ==
    /\ user_data' = [user_data EXCEPT ![TheUser] = r.ud]
    /\ heap' = r.hp
    /\ outcome' = [user |-> TheUser, out |-> r.out]
    /\ shown' = [shown EXCEPT ![TheUser] = @ \cup Keyboard(r.out)]
    /\ update' = upd
    /\ UNCHANGED outside_settings

\* Callback data of the buttons (lines 41-45, 198-204, 210-231, 243-264):
\* the first preset and the last percentage stand for the indexed buttons.
SettingsButtons ==
    {Button("chain_settings", "ton", 0), Button("chain_settings", "solana", 0),
     Button("set_buy_settings", "", 0), Button("set_sell_settings", "", 0),
     Button("edit_buy_preset", "", 0), Button("edit_buy_slippage", "", 0),
     Button("edit_sell_percent", "", 3), Button("edit_sell_slippage", "", 0),
     Button("settings_done", "", 0), Button("settings_back", "", 0),
     Button("main_menu", "", 0)}

\* Texts: "7" and a text that is not a number.
SettingsTexts == {Str(Tenths(7)), BadStr}

\* /settings
SettingsCommand ==
    Handle(Update("command", NoData, NoText, "settings_command_handler"),
           settings_handler(user_data[TheUser], heap))

\* A button of a settings menu the user was sent is pressed.
SettingsCallback ==
    \E data \in SettingsButtons :
        /\ data.kind \in shown[TheUser]
        /\ Handle(Update("callback", data, NoText, "settings_callback_handler"),
               settings_callback(user_data[TheUser], heap, data))

\* A text message is handled by handle_text_input.
SettingsText ==
    \E text \in SettingsTexts :
        Handle(Update("text", NoData, text, "settings_input_handler"),
               handle_text_input(user_data[TheUser], heap, text))

NextSettings ==
    \/ SettingsCommand
    \/ SettingsCallback
    \/ SettingsText

SpecSettings == Init /\ [][NextSettings]_vars

-----------------------------------------------------------------------------
(* One user typing numbers in and out of the range of line 170.            *)

RangeButtons ==
    {Button("chain_settings", "ton", 0), Button("chain_settings", "solana", 0),
     Button("set_buy_settings", "", 0), Button("set_sell_settings", "", 0),
     Button("edit_buy_slippage", "", 0), Button("edit_sell_percent", "", 3),
     Button("settings_done", "", 0)}

\* Texts: "7", "150", "-1" and a text that is not a number.
RangeTexts == {Str(Tenths(7)), Str(Tenths(150)), Str(Tenths(0 - 1)), BadStr}

RangeCommand ==
    Handle(Update("command", NoData, NoText, "settings_command_handler"),
           settings_handler(user_data[TheUser], heap))

RangeCallback ==
    \E data \in RangeButtons :
        /\ data.kind \in shown[TheUser]
        /\ Handle(Update("callback", data, NoText, "settings_callback_handler"),
               settings_callback(user_data[TheUser], heap, data))

RangeText ==
    \E text \in RangeTexts :
        Handle(Update("text", NoData, text, "settings_input_handler"),
               handle_text_input(user_data[TheUser], heap, text))

NextRange ==
    \/ RangeCommand
    \/ RangeCallback
    \/ RangeText

SpecRange == Init /\ [][NextRange]_vars

-----------------------------------------------------------------------------
(* The running bot, src/bot/main.py lines 76-92.  All handlers are added   *)
(* to one group, in which the Application gives an update to the first     *)
(* handler, in the order of add_handler, whose filter accepts it, and to   *)
(* no other.                                                               *)

\* Lines 77-92, in order.
Registered ==
    <<"start_handler", "start_callback_handler", "wallet_handler", "wallet_callbacks",
      "buy_handler", "sell_handler", "token_details_handler", "help_handler",
      "settings_command_handler", "settings_callback_handler", "settings_input_handler",
      "positions_handler", "pnl_handler", "token_list_handler", "main_menu_handler">>

\* The updates the handlers of the other menus take: none of the /settings
\* command, the buttons of the settings menus and plain text.
OtherHandlerAccepts(h, kind) == FALSE

\* token_details.py line 42, settings.py lines 270-276: what each filter accepts.
Accepts(h, kind) ==
    CASE h = "token_details_handler" -> kind = "text"
      [] h = "settings_command_handler" -> kind = "command"
      [] h = "settings_callback_handler" -> kind = "callback"
      [] h = "settings_input_handler" -> kind = "text"
      [] OTHER -> OtherHandlerAccepts(h, kind)

\* The handler the Application gives an update of this kind to.
FirstMatch(kind) ==
    LET matching == {i \in 1..Len(Registered) : Accepts(Registered[i], kind)}
    IN  Registered[CHOOSE i \in matching : \A j \in matching : i <= j]

\* The texts typed into the settings menus are a few characters long.
ShortText == Addr(3, FALSE, "")

\* token_details (token_details.py lines 9-40) for a short text: detect_chain
\* raises and the handler replies with the invalid-address prompt.
token_details_short(d, hp) ==
    Ended(d, hp, IF detect_chain(ShortText).exc THEN "invalid_address" ELSE "could_not_fetch")

\* What handler h does with a text message.
TextHandledBy(h, d, hp, text) ==
    IF h = "settings_input_handler" THEN handle_text_input(d, hp, text)
    ELSE token_details_short(d, hp)

BotCommand ==
    /\ FirstMatch("command") = "settings_command_handler"
    /\ Handle(Update("command", NoData, NoText, FirstMatch("command")),
              settings_handler(user_data[TheUser], heap))

BotCallback ==
    /\ FirstMatch("callback") = "settings_callback_handler"
    /\ \E data \in SettingsButtons :
          /\ data.kind \in shown[TheUser]
          /\ Handle(Update("callback", data, NoText, FirstMatch("callback")),
                    settings_callback(user_data[TheUser], heap, data))

BotText ==
    \E text \in SettingsTexts :
        Handle(Update("text", NoData, text, FirstMatch("text")),
               TextHandledBy(FirstMatch("text"), user_data[TheUser], heap, text))

NextBot ==
    \/ BotCommand
    \/ BotCallback
    \/ BotText

SpecBot == Init /\ [][NextBot]_vars

-----------------------------------------------------------------------------
(* Vocabulary of the properties *)

Fns == {invocations[i].fn : i \in 1..Len(invocations)}
Urls == {calls[i] : i \in 1..Len(calls)}
Fallbacks == {"fetch_from_jupiter_authenticated", "fetch_from_jupiter_free"}

\* A credential is configured: JUPITER_API_KEY is set to a non-empty string.
Configured == JUPITER_API_KEY # None /\ JUPITER_API_KEY # PyStr("")

\* The resolution that just returned had passed the address checks.
ReturnedAfterValidation ==
    /\ pc = "returned"
    /\ MinSolanaLen <= token_address.len /\ token_address.len <= MaxSolanaLen
    /\ token_address.b58

RatEq(a, b) == a.n * b.d = b.n * a.d

\* The number a JSON scalar spells, when float() accepts it.
IsNumeric(x) == x.k \in {"num", "str"}

-----------------------------------------------------------------------------
\* C1: whenever fetch_from_dexscreener has returned a result, the next step
\* of the resolution returns exactly that result, and no fallback client has
\* been or is invoked in that resolution (no call is added either).
C1_PrimaryResultShortCircuits ==
    [][(pc = "L51" /\ token_info # None) =>
          /\ pc' = "returned"
          /\ result' = token_info
          /\ invocations' = invocations
          /\ calls' = calls
          /\ Fns \cap Fallbacks = {}]_vars

\* C1 witness: with a credential configured, a resolution returned a snapshot
\* after calling only the oracle and the primary provider.
C1_Witness ==
    /\ pc = "returned"
    /\ Configured
    /\ IsSnapshot(result)
    /\ calls = <<"sol_price", "dexscreener">>
    /\ Fns \cap Fallbacks = {}

\* C2: the resolver never returns a snapshot whose price_usd is not > 0,
\* whose name is "Unknown" and whose symbol is "UNK" all at once.
C2_NeverAllEmptySnapshot ==
    (pc = "returned" /\ IsSnapshot(result)) =>
        ~(result.price_usd <= 0 /\ result.name = "Unknown" /\ result.symbol = "UNK")

\* C3: every snapshot the resolver returns has price_impact within [0, 100].
C3_ImpactWithinRange ==
    (pc = "returned" /\ IsSnapshot(result)) =>
        RatLeq(Zero, result.price_impact) /\ RatLeq(result.price_impact, Hundred)

\* C4: with a credential configured, the free-tier client is never invoked
\* and its price endpoint never requested; a resolution returns right after
\* the primary only with the primary's result, so when the primary failed
\* the authenticated client has been invoked, also when the resolution ends
\* in failure.
C4_CredentialSelectsAuthenticated ==
    Configured =>
        /\ "fetch_from_jupiter_free" \notin Fns
        /\ "price" \notin Urls
        /\ pc \notin {"L61", "L62"}
        /\ (ReturnedAfterValidation /\ result = None) =>
               "fetch_from_jupiter_authenticated" \in Fns
        /\ (ReturnedAfterValidation /\ Fns \cap Fallbacks = {}) => IsSnapshot(result)

\* C4 witness: with a credential, primary and authenticated path both failed
\* and the resolution ended in failure after exactly those invocations.
C4_Witness ==
    /\ Configured
    /\ pc = "returned"
    /\ result = None
    /\ Len(invocations) = 3
    /\ invocations[3].fn = "fetch_from_jupiter_authenticated"

\* C5: at most one fallback client is invoked per resolution, and at most
\* once; which one depends only on the credential: without a credential the
\* authenticated client is never invoked, and when the primary failed the
\* free-tier client has been invoked.
C5_ExactlyOneFallbackByCredential ==
    /\ Cardinality({i \in 1..Len(invocations) : invocations[i].fn \in Fallbacks}) <= 1
    /\ Configured => "fetch_from_jupiter_free" \notin Fns
    /\ ~Configured =>
        /\ "fetch_from_jupiter_authenticated" \notin Fns
        /\ "swap_quote" \notin Urls
        /\ pc \notin {"L56", "L57"}
        /\ (ReturnedAfterValidation /\ result = None) => "fetch_from_jupiter_free" \in Fns
        /\ (ReturnedAfterValidation /\ Fns \cap Fallbacks = {}) => IsSnapshot(result)

\* C5 witness: JUPITER_API_KEY is the empty string, the primary failed and
\* the free-tier client was the one fallback invoked.
C5_Witness ==
    /\ JUPITER_API_KEY = PyStr("")
    /\ pc = "returned"
    /\ Len(invocations) = 3
    /\ invocations[3].fn = "fetch_from_jupiter_free"

\* The oracle call failed: timeout or transport error, a status other than
\* 200, a body that is no JSON, or a missing or non-numeric price.
OracleFailed(r) == IsFault(r) \/ ~r.body.has \/ ~IsNumeric(r.body.price)

\* C6: a resolution that passed the address checks calls get_sol_price
\* exactly once and first; when that call failed the reference price is
\* 150 (otherwise the price answered) and the resolution goes on to the
\* primary provider; every provider is passed that same reference price.
C6_ReferencePriceOnceWithFallback ==
    /\ invocations # <<>> =>
        /\ invocations[1].fn = "get_sol_price"
        /\ calls[1] = "sol_price"
        /\ \A i \in 2..Len(invocations) :
              /\ invocations[i].fn # "get_sol_price"
              /\ invocations[i].sol_price_usd = sol_price_usd
        /\ \A i \in 2..Len(calls) : calls[i] # "sol_price"
    /\ pc \in {"L50", "L51", "L56", "L57", "L61", "L62"} => invocations # <<>>
    /\ ReturnedAfterValidation => "fetch_from_dexscreener" \in Fns
    /\ (Len(invocations) = 1 /\ OracleFailed(http[1])) =>
          pc = "L50" /\ sol_price_usd = SolFallback
    /\ (Len(invocations) = 1 /\ ~OracleFailed(http[1])) =>
          pc = "L50" /\ sol_price_usd = http[1].body.price.v

\* C6 witness: the oracle failed (150 is no price the oracle answers here),
\* the primary provider was called with 150 and timed out, and the
\* resolution is about to select its fallback.
C6_Witness ==
    /\ pc = "L51"
    /\ http = <<Timeout>>
    /\ invocations[2] = InvokedWith("fetch_from_dexscreener", SolFallback)
    /\ token_info = None

\* A fault of the primary provider's call: timeout, transport error, status
\* other than 200, body that is no JSON, a missing field, or a numeric field
\* that is null or spells no number.
DexFault(r) ==
    \/ IsFault(r)
    \/ /\ r.body.pairs # <<>>
       /\ LET pair == r.body.pairs[1]
          IN  \/ ~IsNumeric(pair.priceUsd)
              \/ pair.liquidity.k \in {"null", "bad"}
              \/ pair.name = AbsentKey
              \/ pair.symbol = AbsentKey
              \/ pair.marketCap.k = "null"

\* C7: get_solana_token_info never raises; it returns a snapshot or None;
\* a fault of the primary provider's call yields None from the provider,
\* and a resolution that passed the address checks ends in None only after
\* a fallback client has been invoked.
C7_FaultsBecomeFailureValues ==
    /\ raised = FALSE
    /\ pc = "returned" => (result = None \/ IsSnapshot(result))
    /\ pc \in {"L51", "L57", "L62"} => (token_info = None \/ IsSnapshot(token_info))
    /\ (pc = "L51" /\ DexFault(http[1])) => token_info = None
    /\ (ReturnedAfterValidation /\ result = None) => Fns \cap Fallbacks # {}

\* C7 witness: the primary provider answered a pair whose priceUsd is null,
\* which float() rejects, and the provider returned None.
C7_Witness ==
    /\ pc = "L51"
    /\ ~IsFault(http[1])
    /\ http[1].body.pairs # <<>>
    /\ http[1].body.pairs[1].priceUsd = Null
    /\ token_info = None

\* C8: fetch_from_dexscreener returns None when the response holds no pair
\* and when the pair it would use is not a pair of the expected chain.
C8_ForeignChainPairRejected ==
    (pc = "L51" /\ ~IsFault(http[1])) =>
        /\ http[1].body.pairs = <<>> => token_info = None
        /\ (http[1].body.pairs # <<>> /\ http[1].body.pairs[1].chainId # "solana") =>
              token_info = None

\* C9: in fetch_from_jupiter_authenticated, when the quote call succeeded
\* and the metadata call failed in any way, the client still returns a
\* snapshot with the quote's price and the sentinels "Unknown" / "UNK".
C9_MetadataFailureKeepsQuote ==
    (pc = "L57" /\ Len(http) = 2 /\ IsFault(http[2])) =>
        /\ IsSnapshot(token_info)
        /\ token_info.price_usd = http[1].body.outAmount.v * sol_price_usd
        /\ token_info.name = "Unknown"
        /\ token_info.symbol = "UNK"

\* The price lookup of the free tier succeeded with the price it spells.
PriceOk(r) == ~IsFault(r) /\ r.body.has /\ IsNumeric(r.body.price)

ComposedPrice ==
    IF pc = "L62" THEN (IF PriceOk(http[1]) THEN http[1].body.price.v ELSE 0)
    ELSE http[1].body.outAmount.v * sol_price_usd
ComposedName ==
    IF IsFault(http[2]) THEN "Unknown" ELSE NameGet(http[2].body.name, "Unknown")
ComposedSymbol ==
    IF IsFault(http[2]) THEN "UNK" ELSE NameGet(http[2].body.symbol, "UNK")

\* C11: the selected fallback client returns a snapshot exactly when what it
\* composed has price_usd > 0, or a name other than "Unknown", or a symbol
\* other than "UNK"; so a free-tier result with a real symbol, no name and
\* price 0 is a snapshot.
C11_FallbackSnapshotIffNonEmpty ==
    ((pc = "L62") \/ (pc = "L57" /\ Len(http) = 2)) =>
        (IsSnapshot(token_info) <=>
            (ComposedPrice > 0 \/ ComposedName # "Unknown" \/ ComposedSymbol # "UNK"))

\* The length of addr is in neither window: not in [40,44], and not a
\* 48-character string that starts with "EQ" or "UQ".
OutsideWindows(addr) ==
    /\ ~(40 <= addr.len /\ addr.len <= 44)
    /\ ~(addr.len = 48 /\ addr.prefix \in {"EQ", "UQ"})

\* The length of addr is in [40,44] and it is not a public-key encoding.
InvalidKey(addr) == 40 <= addr.len /\ addr.len <= 44 /\ ~addr.b58

RejectedAddress(addr) == OutsideWindows(addr) \/ InvalidKey(addr)

\* C12: while get_token_info runs for a rejected address, and once it has
\* returned, no provider function was invoked and no HTTP request was made,
\* and the value it returns is None.
C12_RejectedAddressNoNetwork ==
    (fpc # "idle" /\ RejectedAddress(facade_address)) =>
        /\ calls = <<>>
        /\ invocations = <<>>
        /\ fpc # "L22"
        /\ pc \in {"idle", "returned"}
        /\ fpc = "returned" => facade_result = None

\* C12 witness: get_token_info returned None for the 44-character string
\* that is not a key, after get_solana_token_info turned it away.
C12_Witness ==
    /\ fpc = "returned"
    /\ InvalidKey(facade_address)
    /\ token_address = facade_address
    /\ pc = "returned"
    /\ facade_result = None
    /\ calls = <<>>

\* C13: after detect_chain ran in token_details on a string whose length is
\* in [40,44] and which is not a public-key encoding, the outcome is the
\* rejection, not the Solana tag.
C13_InvalidKeyRejectedByClassifier ==
    (hpc # "idle" /\ InvalidKey(user_input)) => chain = "rejected"

\* C14: detect_chain yields exactly one of the two tags or the rejection;
\* it rejects every string outside both windows, 48-character strings with
\* another prefix included, and tags a 48-character "EQ"/"UQ" string as TON;
\* classifying the same string again in get_token_info gives the same
\* outcome, seen in which resolver get_token_info hands the string to.
C14_ClassifierTotalDeterministic ==
    /\ hpc # "idle" =>
          /\ chain \in {"solana", "ton", "rejected"}
          /\ OutsideWindows(user_input) => chain = "rejected"
          /\ (user_input.len = 48 /\ user_input.prefix \in {"EQ", "UQ"}) => chain = "ton"
          /\ hpc \in {"L16", "awaiting"} => chain # "rejected"
    /\ hpc = "awaiting" =>
          /\ facade_address = user_input
          /\ chain = "solana" => (token_address = user_input /\ pc # "idle")
          /\ chain = "ton" => (pc = "idle" /\ fpc \in {"L22", "returned"})
    /\ (fpc # "idle" /\ OutsideWindows(facade_address)) =>
          (fpc = "returned" /\ pc = "idle" /\ facade_result = None)
    /\ (fpc # "idle" /\ facade_address.len = 48 /\ facade_address.prefix \in {"EQ", "UQ"}) =>
          (fpc \in {"L22", "returned"} /\ pc = "idle")

\* C14 witness: the handler showed the details of a 48-character "UQ"
\* address that was tagged TON.
C14_Witness ==
    /\ hpc = "replied"
    /\ user_input = Addr(48, FALSE, "UQ")
    /\ chain = "ton"
    /\ reply = "details"
    /\ calls = <<"ton">>

\* C15: when token_details replies, an address that fails classification,
\* a 40-44 character string with an invalid key encoding included, gets the
\* invalid-address prompt; the could-not-fetch message goes only to an
\* address that was classified and whose resolution returned nothing; with
\* either reply context.user_data["token_info"] is left as it was.
C15_HandlerReplies ==
    [][(hpc # "replied" /\ hpc' = "replied") =>
          /\ RejectedAddress(user_input') => reply' = "invalid_address"
          /\ reply' = "could_not_fetch" =>
                (~RejectedAddress(user_input') /\ facade_result = None)
          /\ reply' \in {"invalid_address", "could_not_fetch"} =>
                user_data_has_token_info' = user_data_has_token_info]_vars

\* What get_solana_token_info returns when it runs alone for addr under the
\* credential key and the providers answer rec[1], rec[2], ... in this order.
Alone(addr, key, rec) ==
    IF ~(40 <= addr.len /\ addr.len <= 44 /\ addr.b58) THEN None
    ELSE LET sol == get_sol_price(rec[1]).val
             primary == fetch_from_dexscreener(rec[2], addr, sol).val
         IN  IF primary # None THEN primary
             ELSE IF key # None /\ key # PyStr("")
                  THEN fetch_from_jupiter_authenticated(rec[3], rec[4], addr, sol).val
                  ELSE fetch_from_jupiter_free(rec[3], rec[4], addr, sol).val

\* C18: whatever the interleaving of the coroutines, the reference price a
\* coroutine holds is the one its own oracle response gives, and the value
\* it returns is the value get_solana_token_info returns alone for its
\* address, the credential and the responses it received.
C18_ConcurrentResolutionsIndependent ==
    \A i \in Resolutions :
        /\ tasks[i].pc \in {"L50", "L55"} =>
              tasks[i].sol_price_usd = get_sol_price(tasks[i].received[1]).val
        /\ tasks[i].pc = "returned" =>
              tasks[i].result =
                 Alone(tasks[i].token_address, JUPITER_API_KEY, tasks[i].received)

\* C18 witness: one coroutine returned a snapshot while the other is in
\* flight holding a different reference price.
C18_Witness ==
    /\ tasks["r1"].pc = "returned"
    /\ IsSnapshot(tasks["r1"].result)
    /\ tasks["r2"].pc \in {"L50", "L55"}
    /\ tasks["r2"].sol_price_usd # tasks["r1"].sol_price_usd

\* The values a dict of references stands for.
Values(hp, refs) == [k \in DOMAIN refs |-> hp[refs[k]]]

\* The settings of user u as values: <<>> before they are initialised.
SettingsOf(ud, hp, u) ==
    IF "settings" \in DOMAIN ud[u]
    THEN <<Values(hp, ud[u]["settings"]["ton"]), Values(hp, ud[u]["settings"]["solana"])>>
    ELSE <<>>

\* C20: a handler call that serves one user leaves the values of
\* DEFAULT_TON_SETTINGS and DEFAULT_SOLANA_SETTINGS as they were at import,
\* and leaves the settings of every other user as they were; a user whose
\* settings are initialised by the call starts from the import-time values.
C20_SettingsIsolated ==
    [][/\ Values(heap', DEFAULT_TON_SETTINGS) = Values(HeapInit, DEFAULT_TON_SETTINGS)
       /\ Values(heap', DEFAULT_SOLANA_SETTINGS) = Values(HeapInit, DEFAULT_SOLANA_SETTINGS)
       /\ \A w \in Users :
            /\ w # outcome'.user =>
                  SettingsOf(user_data', heap', w) = SettingsOf(user_data, heap, w)
            /\ ("settings" \notin DOMAIN user_data[w] /\ "settings" \in DOMAIN user_data'[w]) =>
                  SettingsOf(user_data', heap', w) =
                     <<Values(HeapInit, DEFAULT_TON_SETTINGS),
                       Values(HeapInit, DEFAULT_SOLANA_SETTINGS)>>]_vars

\* The buttons that select a field for editing.
EditKinds == {"edit_buy_preset", "edit_buy_slippage", "edit_sell_percent", "edit_sell_slippage"}

\* The value of the field that button data names, in the current chain of
\* the user's dict d.
Cell(hp, d, data) ==
    LET buy == hp[d["settings"][d["current_chain"]]["buy_settings"]]
        sell == hp[d["settings"][d["current_chain"]]["sell_settings"]]
    IN  CASE data.kind = "edit_buy_preset" -> buy["presets"][data.index + 1]
          [] data.kind = "edit_buy_slippage" -> buy["slippage"]
          [] data.kind = "edit_sell_percent" -> sell["percentages"][data.index + 1]
          [] data.kind = "edit_sell_slippage" -> sell["slippage"]

\* C21: when the user has pressed an edit button and was asked for the
\* value, the text message that comes next is given to
\* settings_input_handler, and a number typed sets the selected field.
C21_TextAfterEditReachesInput ==
    [][(/\ update.kind = "callback"
        /\ update.data.kind \in EditKinds
        /\ outcome.out = "ask_value"
        /\ update'.kind = "text") =>
          /\ update'.handler = "settings_input_handler"
          /\ update'.text.k = "str" =>
                Cell(heap', user_data[TheUser], update.data) = update'.text.v]_vars

\* The keys of context.user_data that mark a pending edit.
EditingFlags ==
    {"editing_buy_preset_index", "editing_buy_slippage", "editing_sell_percent_index",
     "editing_sell_slippage"}

\* The edit buttons among the buttons of the menus.
EditButtons == {b \in SettingsButtons : b.kind \in EditKinds}

\* C22: when the press of an edit button is followed by a text that is a
\* number, the field named by that press takes the number, the fields named
\* by the other edit buttons keep their values, and no editing flag is
\* pending afterwards.
C22_LastPressedFieldEdited ==
    [][(/\ update.kind = "callback"
        /\ update.data.kind \in EditKinds
        /\ outcome.out = "ask_value"
        /\ update'.kind = "text"
        /\ update'.text.k = "str") =>
          /\ Cell(heap', user_data[TheUser], update.data) = update'.text.v
          /\ \A b \in EditButtons \ {update.data} :
                Cell(heap', user_data[TheUser], b) = Cell(heap, user_data[TheUser], b)
          /\ DOMAIN user_data'[TheUser] \cap EditingFlags = {}]_vars

\* The buttons whose branch of settings_callback uses the current chain.
ChainKinds == EditKinds \cup {"set_buy_settings", "set_sell_settings", "settings_done"}

\* C23: when a button whose branch uses the current chain is pressed, or a
\* text arrives while an edit is pending, current_chain is "ton" or
\* "solana" and the handler does not end with an exception.
C23_CurrentChainSetWhenUsed ==
    [][(\/ update'.kind = "callback" /\ update'.data.kind \in ChainKinds
        \/ update'.kind = "text" /\ DOMAIN user_data[TheUser] \cap EditingFlags # {}) =>
          /\ "current_chain" \in DOMAIN user_data[TheUser]
          /\ user_data[TheUser]["current_chain"] \in {"ton", "solana"}
          /\ outcome'.out \notin {"KeyError", "AttributeError"}]_vars

\* The sell percentages of both chains.
SellPercentages(hp) ==
    {hp["ton_sell"]["percentages"][i] : i \in 1..4} \cup
    {hp["solana_sell"]["percentages"][i] : i \in 1..4}

\* C24: every sell percentage is within [0, 100] at all times; a number
\* outside the range typed while the sell-percentage edit is the pending
\* edit the text applies to is refused: the values of all settings and the
\* user's dict stay as they were, the edit still pending.
C24_SellPercentagesInRange ==
    /\ [](\A v \in SellPercentages(heap) : 0 <= v /\ v <= Tenths(100))
    /\ [][(/\ update'.kind = "text"
           /\ update'.text.k = "str"
           /\ (update'.text.v < 0 \/ update'.text.v > Tenths(100))
           /\ "editing_sell_percent_index" \in DOMAIN user_data[TheUser]
           /\ "editing_buy_preset_index" \notin DOMAIN user_data[TheUser]
           /\ "editing_buy_slippage" \notin DOMAIN user_data[TheUser]) =>
             /\ heap' = heap
             /\ user_data' = user_data
             /\ outcome'.out = "out_of_range"]_vars

\* C24 witness: "150" was refused while the edit of a sell percentage of
\* solana was pending.
C24_Witness ==
    /\ update.kind = "text"
    /\ update.text = Str(Tenths(150))
    /\ outcome.out = "out_of_range"
    /\ "editing_sell_percent_index" \in DOMAIN user_data[TheUser]
    /\ user_data[TheUser]["current_chain"] = "solana"

\* The edits pending in the user's dict d.
Pending(d) == DOMAIN d \cap EditingFlags

\* C25: a text that is not a number, arriving while an edit is pending,
\* leaves every setting and the user's dict, pending flags included, as they
\* were, so the state the next number meets is the one before the text; a
\* text arriving while no edit is pending leaves every setting as it was
\* and no edit pending.
C25_BadTextKeepsPendingEdit ==
    [][update'.kind = "text" =>
          /\ (Pending(user_data[TheUser]) # {} /\ update'.text.k \notin {"str", "num"}) =>
                /\ heap' = heap
                /\ user_data' = user_data
                /\ outcome'.out = "invalid_number"
          /\ Pending(user_data[TheUser]) = {} =>
                /\ heap' = heap
                /\ Pending(user_data'[TheUser]) = {}]_vars

\* C25 witness: a text that is not a number was answered while the edit of
\* the sell slippage was pending, and the edit is still pending.
C25_Witness ==
    /\ update.kind = "text"
    /\ update.text = BadStr
    /\ outcome.out = "invalid_number"
    /\ Pending(user_data[TheUser]) = {"editing_sell_slippage"}

\* The places that hold a setting value: <<inner dict, key, list index>>,
\* list index 0 for a slippage.
Cells ==
    ({"ton_buy", "solana_buy"} \X {"presets"} \X (1..4)) \cup
    ({"ton_sell", "solana_sell"} \X {"percentages"} \X (1..4)) \cup
    ({"ton_buy", "solana_buy", "ton_sell", "solana_sell"} \X {"slippage"} \X {0})

CellAt(hp, c) == IF c[3] = 0 THEN hp[c[1]][c[2]] ELSE hp[c[1]][c[2]][c[3]]

\* The place the pending edit flag of the user's dict d stands for.
FlagCell(d, flag) ==
    LET s == d["settings"][d["current_chain"]]
    IN  CASE flag = "editing_buy_preset_index" -> <<s["buy_settings"], "presets", d[flag] + 1>>
          [] flag = "editing_buy_slippage" -> <<s["buy_settings"], "slippage", 0>>
          [] flag = "editing_sell_percent_index" ->
               <<s["sell_settings"], "percentages", d[flag] + 1>>
          [] flag = "editing_sell_slippage" -> <<s["sell_settings"], "slippage", 0>>

\* C26: a text that is applied as an edit (the buy or sell settings menu is
\* sent back) removes exactly one pending editing flag from the user's
\* dict and changes nothing else in it, current_chain included; the place
\* that flag stands for in the current chain takes the number and every
\* other setting value, of either chain, is as before.
C26_EditChangesOneField ==
    [][(update'.kind = "text" /\ outcome'.out \in {"buy_settings", "sell_settings"}) =>
          \E flag \in Pending(user_data[TheUser]) :
             /\ DOMAIN user_data'[TheUser] = DOMAIN user_data[TheUser] \ {flag}
             /\ \A k \in DOMAIN user_data'[TheUser] :
                   user_data'[TheUser][k] = user_data[TheUser][k]
             /\ "current_chain" \in DOMAIN user_data'[TheUser]
             /\ \A c \in Cells :
                   CellAt(heap', c) =
                      IF c = FlagCell(user_data[TheUser], flag)
                      THEN update'.text.v ELSE CellAt(heap, c)]_vars

\* C26 witness: "7" became the last sell percentage of solana while the
\* same percentage of ton kept its default and another edit stayed pending.
C26_Witness ==
    /\ update.kind = "text"
    /\ outcome.out = "sell_settings"
    /\ user_data[TheUser]["current_chain"] = "solana"
    /\ heap["solana_sell"]["percentages"][4] = Tenths(7)
    /\ heap["ton_sell"]["percentages"][4] = Tenths(100)
    /\ Pending(user_data[TheUser]) = {"editing_sell_slippage"}

\* Position of a line of get_solana_token_info in the order the lines run.
Rank(l) ==
    CASE l = "L48" -> 1
      [] l = "L50" -> 2
      [] l = "L51" -> 3
      [] l \in {"L56", "L61"} -> 4
      [] l \in {"L57", "L62"} -> 5
      [] OTHER -> 6

\* C16: a resolution makes at most four HTTP requests, requests each
\* endpoint at most once and calls each function at most once; every step
\* of a running resolution moves it strictly forward, so it ends, and it
\* ends with a snapshot or None.
C16_OneShotAttempts ==
    /\ [](/\ Len(calls) <= 4
          /\ \A i, j \in 1..Len(calls) : calls[i] = calls[j] => i = j
          /\ \A i, j \in 1..Len(invocations) :
                invocations[i].fn = invocations[j].fn => i = j
          /\ pc = "returned" => (result = None \/ IsSnapshot(result)))
    /\ [][pc \notin {"idle", "returned"} => Rank(pc') > Rank(pc)]_vars

\* C16 witness: a resolution ended after the four requests of the free-tier
\* path, each made once.
C16_Witness ==
    /\ pc = "returned"
    /\ calls = <<"sol_price", "dexscreener", "price", "token">>

\* The pair the primary provider answered is usable apart from its liquidity.
DexPairUsable(r) ==
    /\ ~IsFault(r)
    /\ r.body.pairs # <<>>
    /\ IsNumeric(r.body.pairs[1].priceUsd)
    /\ r.body.pairs[1].name # AbsentKey
    /\ r.body.pairs[1].symbol # AbsentKey
    /\ r.body.pairs[1].marketCap.k # "null"

\* C17: from a usable pair whose liquidity is absent, zero or negative the
\* primary client builds a snapshot with price_impact exactly 100; with a
\* positive liquidity L the price_impact is t / (L + t) * 100 with
\* t = 0.01 * reference price, and 100 when that exceeds 100.
C17_DexPriceImpact ==
    (pc = "L51" /\ DexPairUsable(http[1])) =>
        LET liq == http[1].body.pairs[1].liquidity
            n == sol_price_usd * 100
            d == 100 * liq.v + sol_price_usd
        IN  /\ (liq.k = "absent" \/ (liq.k = "num" /\ liq.v <= 0)) =>
                  /\ IsSnapshot(token_info)
                  /\ token_info.price_impact = Rat(100, 1)
            /\ (liq.k = "num" /\ liq.v > 0) =>
                  /\ IsSnapshot(token_info)
                  /\ IF n > 100 * d
                     THEN RatEq(token_info.price_impact, Rat(100, 1))
                     ELSE RatEq(token_info.price_impact, Rat(n, d))

\* C17 witness: a usable pair with liquidity 0 gave a snapshot with
\* price_impact 100.
C17_Witness ==
    /\ pc = "L51"
    /\ DexPairUsable(http[1])
    /\ http[1].body.pairs[1].liquidity = Num(0)
    /\ IsSnapshot(token_info)
    /\ token_info.price_impact = Rat(100, 1)

\* C19: every value other than None that a client returns or the resolver
\* returns is a dict with exactly the seven keys, and its address is the
\* address passed in.
C19_SevenFieldsAddressEcho ==
    /\ (pc = "returned" /\ result # None) =>
          /\ DOMAIN result = {"name", "symbol", "address", "price_usd", "liquidity",
                              "market_cap", "price_impact"}
          /\ result.address = token_address
    /\ (pc \in {"L51", "L57", "L62"} /\ token_info # None) =>
          /\ DOMAIN token_info = {"name", "symbol", "address", "price_usd", "liquidity",
                                  "market_cap", "price_impact"}
          /\ token_info.address = token_address

\* C19 witness: the authenticated path produced the returned snapshot for
\* the 44-character address.
C19_Witness ==
    /\ pc = "returned"
    /\ result # None
    /\ token_address = Addr(44, TRUE, "EQ")
    /\ Len(invocations) = 3
    /\ invocations[3].fn = "fetch_from_jupiter_authenticated"

====
